---- MODULE Spec2Model ----
(***************************************************************************)
(* State-machine model of contracts/Inheritance_AI_Fhe.sol                 *)
(* (contract InheritanceAiFhe).                                            *)
(*                                                                         *)
(* Contract storage is modelled field by field.  A transaction either runs *)
(* to completion or reverts; a reverted transaction leaves storage exactly *)
(* as it was.  Every transaction leaves a receipt (operation, outcome and  *)
(* the events it emitted).                                                 *)
(*                                                                         *)
(* The FHE library and the decryption oracle are outside the repository.   *)
(* A ciphertext is modelled by its handle, a term recording how it was     *)
(* computed; Clear gives the cleartext the oracle would decrypt it to.     *)
(***************************************************************************)
EXTENDS Integers, Sequences, FiniteSets, TLC

VARIABLES
    owner,                        \* address public owner
    isProvider,                   \* mapping(address => bool)
    paused,                       \* bool public paused
    cooldownSeconds,              \* uint256 public cooldownSeconds
    lastSubmissionTime,           \* mapping(address => uint256)
    lastDecryptionRequestTime,    \* mapping(address => uint256)
    currentBatchId,               \* uint256 public currentBatchId
    batchClosed,                  \* mapping(uint256 => bool)
    decryptionContexts,           \* mapping(uint256 => DecryptionContext)
    encryptedLastSignalTimestamp, \* euint32 (handle)
    encryptedInactivityThreshold, \* euint32 (handle)
    now,                          \* block.timestamp of the current block
    requestCounter,               \* oracle: number of decryption requests issued
    oracleRequests,               \* oracle: handles submitted under each requestId
    txCount,                      \* number of transactions executed so far, reverted ones included
    signals,                      \* ledger: arguments of the accepted submitLifeSignal calls, in order
    decryptionEvents,             \* ledger: the DecryptionRequested / DecryptionCompleted events emitted, in order
    receipt                       \* outcome of the latest transaction

storage == <<owner, isProvider, paused, cooldownSeconds, lastSubmissionTime,
             lastDecryptionRequestTime, currentBatchId, batchClosed,
             decryptionContexts, encryptedLastSignalTimestamp,
             encryptedInactivityThreshold>>

oracle == <<requestCounter, oracleRequests>>

ledger == <<now, signals, decryptionEvents>>

vars == <<owner, isProvider, paused, cooldownSeconds, lastSubmissionTime,
          lastDecryptionRequestTime, currentBatchId, batchClosed,
          decryptionContexts, encryptedLastSignalTimestamp,
          encryptedInactivityThreshold, now, requestCounter, oracleRequests,
          txCount, signals, decryptionEvents, receipt>>

----------------------------------------------------------------------------
(* Bounds of the model *)

\* transactions in a run
MaxTx == 5
\* decryption requests the oracle hands out ids for
MaxRequests == 2
\* largest batch id opened
MaxBatch == 2
\* euint32 arithmetic is modulo 2^32; the model keeps the wrap-around on a
\* narrower word so that the values stay inside TLC's integers
Uint32Modulus == 65536

\* uint256 arithmetic is checked: a sum above 2^256 - 1 reverts with
\* Panic(0x11). A uint256 that takes part in such a sum is kept at full width,
\* as LimbCount digits to the base LimbBase, least significant first
Uint256Bits == 256
LimbBase == 2^16
LimbCount == Uint256Bits \div 16

\* the k least significant digits of the natural number n
RECURSIVE Limbs(_, _)
Limbs(n, k) ==
    IF k = 0 THEN <<>> ELSE <<n % LimbBase>> \o Limbs(n \div LimbBase, k - 1)

toUint256(n) == Limbs(n, LimbCount)

\* type(uint256).max = 2^256 - 1
MaxUint256 == [i \in 1..LimbCount |-> LimbBase - 1]

\* digits of x + y + carry for x, y of equal length, one digit longer
RECURSIVE AddLimbs(_, _, _)
AddLimbs(x, y, carry) ==
    IF x = <<>> THEN <<carry>>
    ELSE <<(x[1] + y[1] + carry) % LimbBase>>
         \o AddLimbs(Tail(x), Tail(y), (x[1] + y[1] + carry) \div LimbBase)

\* x < y for x, y of equal length
RECURSIVE LessLimbs(_, _)
LessLimbs(x, y) ==
    IF x = <<>> THEN FALSE
    ELSE IF x[Len(x)] # y[Len(y)] THEN x[Len(x)] < y[Len(y)]
    ELSE LessLimbs(SubSeq(x, 1, Len(x) - 1), SubSeq(y, 1, Len(y) - 1))

\* cooldownSeconds set by the constructor
DefaultCooldown == 60

Addresses == {"a1", "a2"}
Deployer == "a1"
ZeroAddress == "0x0"
ThisAddress == "this"

\* block timestamps the model visits
Times == {1540, 1600}
StartTime == CHOOSE t \in Times : \A u \in Times : t <= u
\* uint256 arguments of submitLifeSignal / setInactivityThreshold / setCooldownSeconds
\* (an argument of 0 wraps to the uninitialized handle)
SignalInputs == {1000, 1580}
ThresholdInputs == {0, 500, 700}
CooldownInputs == {toUint256(0), toUint256(2000), MaxUint256}

BatchIds == 1..MaxBatch
RequestIds == 1..MaxRequests

----------------------------------------------------------------------------
(* Encrypted arithmetic adapter (FHE library) *)

NullHandle == [op |-> "null", n |-> 0, a |-> <<>>]

asEuint32(x) == IF x = 0 THEN NullHandle ELSE [op |-> "wrap", n |-> x, a |-> <<>>]

isInitialized(h) == h # NullHandle

FHEmax(x, y) == [op |-> "max", n |-> 0, a |-> <<x, y>>]

FHEsub(x, y) == [op |-> "sub", n |-> 0, a |-> <<x, y>>]

FHEge(x, y) == [op |-> "ge", n |-> 0, a |-> <<x, y>>]

toBytes32(h) == h

MaxOf(x, y) == IF x >= y THEN x ELSE y

RECURSIVE Clear(_)
\* cleartext meaning of a handle (what the oracle decrypts it to); an
\* uninitialized operand counts as 0
Clear(h) ==
    CASE h.op = "null" -> 0
      [] h.op = "wrap" -> h.n % Uint32Modulus
      [] h.op = "max"  -> MaxOf(Clear(h.a[1]), Clear(h.a[2]))
      [] h.op = "sub"  -> (Clear(h.a[1]) - Clear(h.a[2])) % Uint32Modulus
      [] h.op = "ge"   -> IF Clear(h.a[1]) >= Clear(h.a[2]) THEN 1 ELSE 0

RECURSIVE SignalCount(_)
\* number of max-aggregations folded into an aggregate handle
SignalCount(h) == IF h.op = "max" THEN 1 + SignalCount(h.a[1]) ELSE 0

----------------------------------------------------------------------------
(* Decryption oracle *)

NoRequest == <<>>

\* cleartexts the oracle returns for a list of handles, in order
Decrypt(cts) == [i \in 1..Len(cts) |-> Clear(cts[i])]

ForgedProof == [signed |-> FALSE, rid |-> 0, clear |-> <<>>]

\* the oracle's attestation of cleartexts for a request
Sign(rid, clear) == [signed |-> TRUE, rid |-> rid, clear |-> clear]

checkSignatures(rid, clear, proof) == proof = Sign(rid, clear)

\* what a caller of the callback can present: the oracle signs only the true
\* decryption of the handles it was asked to decrypt
Requested == {r \in RequestIds : oracleRequests[r] # NoRequest}

GenuineDeliveries ==
    {[rid |-> r, clear |-> Decrypt(oracleRequests[r]),
      proof |-> Sign(r, Decrypt(oracleRequests[r]))] : r \in Requested}

BogusClear == <<0, 0, 1>>

\* every (requestId, cleartexts, proof) a caller of the callback may present
Deliveries ==
    {[rid |-> r, clear |-> c, proof |-> ForgedProof] :
        r \in RequestIds, c \in {BogusClear} \cup {d.clear : d \in GenuineDeliveries}}
    \cup {[rid |-> r, clear |-> d.clear, proof |-> d.proof] :
        r \in RequestIds, d \in GenuineDeliveries}

----------------------------------------------------------------------------
(* Events and receipts *)

Ev(name, who, who2, id, batch, x, y, flag) ==
    [name |-> name, who |-> who, who2 |-> who2, id |-> id, batch |-> batch,
     x |-> x, y |-> y, flag |-> flag]

OwnershipTransferred(prev, new) == Ev("OwnershipTransferred", prev, new, 0, 0, 0, 0, FALSE)
ProviderAdded(p) == Ev("ProviderAdded", p, ZeroAddress, 0, 0, 0, 0, FALSE)
ProviderRemoved(p) == Ev("ProviderRemoved", p, ZeroAddress, 0, 0, 0, 0, FALSE)
PauseToggled(b) == Ev("PauseToggled", ZeroAddress, ZeroAddress, 0, 0, 0, 0, b)
CooldownSecondsUpdated(old, new) == Ev("CooldownSecondsUpdated", ZeroAddress, ZeroAddress, 0, 0, old, new, FALSE)
BatchOpened(b) == Ev("BatchOpened", ZeroAddress, ZeroAddress, 0, b, 0, 0, FALSE)
BatchClosed(b) == Ev("BatchClosed", ZeroAddress, ZeroAddress, 0, b, 0, 0, FALSE)
SignalSubmitted(p, b) == Ev("SignalSubmitted", p, ZeroAddress, 0, b, 0, 0, FALSE)
ThresholdSet(b, x) == Ev("ThresholdSet", ZeroAddress, ZeroAddress, 0, b, x, 0, FALSE)
DecryptionRequested(r, b) == Ev("DecryptionRequested", ZeroAddress, ZeroAddress, r, b, 0, 0, FALSE)
DecryptionCompleted(r, b, ls, th, t) == Ev("DecryptionCompleted", ZeroAddress, ZeroAddress, r, b, ls, th, t)

Ok == "ok"

\* op and caller identify the transaction (for the callback, whose sender is not
\* looked at, caller is the zero address and id the requestId delivered)
Receipt(op, caller, id, err, logs) ==
    [op |-> op, caller |-> caller, id |-> id, err |-> err, logs |-> logs]

\* a transaction is executed in the current block, while the run has room for it
Mined ==
    /\ txCount < MaxTx
    /\ txCount' = txCount + 1
    /\ now' = now

\* a reverted transaction: storage and oracle untouched, nothing emitted
Revert(op, caller, id, err) ==
    /\ txCount < MaxTx
    /\ txCount' = txCount + 1
    /\ receipt' = Receipt(op, caller, id, err, <<>>)
    /\ UNCHANGED <<storage, oracle, ledger>>

----------------------------------------------------------------------------
(* Binding hash *)

NullHash == [cts |-> <<>>, addr |-> ZeroAddress]

\* mutant: the current batch id is hashed in
hashCiphertextsWithBatch(cts) ==
    [cts |-> cts, addr |-> <<ThisAddress, currentBatchId>>]

hashCiphertexts(cts) == [cts |-> cts, addr |-> ThisAddress]

NullContext == [batchId |-> 0, stateHash |-> NullHash, processed |-> FALSE]

----------------------------------------------------------------------------
(* Constructor *)

Init ==
    /\ owner = Deployer
    /\ isProvider = [a \in Addresses |-> a = Deployer]
    /\ paused = FALSE
    /\ cooldownSeconds = toUint256(DefaultCooldown)
    /\ lastSubmissionTime = [a \in Addresses |-> 0]
    /\ lastDecryptionRequestTime = [a \in Addresses |-> 0]
    /\ currentBatchId = 1
    /\ batchClosed = [b \in BatchIds |-> FALSE]
    /\ decryptionContexts = [r \in RequestIds |-> NullContext]
    /\ encryptedLastSignalTimestamp = NullHandle
    /\ encryptedInactivityThreshold = NullHandle
    /\ now = StartTime
    /\ requestCounter = 0
    /\ txCount = 0
    /\ signals = <<>>
    /\ decryptionEvents = <<>>
    /\ oracleRequests = [r \in RequestIds |-> NoRequest]
    /\ receipt = Receipt("constructor", Deployer, 0, Ok, <<ProviderAdded(Deployer), BatchOpened(1)>>)

----------------------------------------------------------------------------
(* Access control and configuration *)

\* mutant: provider status moves with ownership
transferOwnershipWithProvider(caller, newOwner) ==
    IF caller # owner THEN Revert("transferOwnership", caller, 0, "NotOwner")
    ELSE
        /\ owner' = newOwner
        /\ isProvider' = [[isProvider EXCEPT ![owner] = FALSE] EXCEPT ![newOwner] = TRUE]
        /\ Mined
        /\ receipt' = Receipt("transferOwnership", caller, 0, Ok, <<OwnershipTransferred(owner, newOwner)>>)
        /\ UNCHANGED <<paused, cooldownSeconds, lastSubmissionTime,
                       lastDecryptionRequestTime, currentBatchId, batchClosed,
                       decryptionContexts, encryptedLastSignalTimestamp,
                       encryptedInactivityThreshold, oracle, signals, decryptionEvents>>

transferOwnership(caller, newOwner) ==
    IF caller # owner THEN Revert("transferOwnership", caller, 0, "NotOwner")
    ELSE
        /\ owner' = newOwner
        /\ Mined
        /\ receipt' = Receipt("transferOwnership", caller, 0, Ok, <<OwnershipTransferred(owner, newOwner)>>)
        /\ UNCHANGED <<isProvider, paused, cooldownSeconds, lastSubmissionTime,
                       lastDecryptionRequestTime, currentBatchId, batchClosed,
                       decryptionContexts, encryptedLastSignalTimestamp,
                       encryptedInactivityThreshold, oracle, signals, decryptionEvents>>

\* mutant: the event is emitted also when the address is a provider already
addProviderAlwaysEmit(caller, provider) ==
    IF caller # owner THEN Revert("addProvider", caller, 0, "NotOwner")
    ELSE
        /\ isProvider' = [isProvider EXCEPT ![provider] = TRUE]
        /\ Mined
        /\ receipt' = Receipt("addProvider", caller, 0, Ok, <<ProviderAdded(provider)>>)
        /\ UNCHANGED <<owner, paused, cooldownSeconds, lastSubmissionTime,
                       lastDecryptionRequestTime, currentBatchId, batchClosed,
                       decryptionContexts, encryptedLastSignalTimestamp,
                       encryptedInactivityThreshold, oracle, signals, decryptionEvents>>

addProvider(caller, provider) ==
    IF caller # owner THEN Revert("addProvider", caller, 0, "NotOwner")
    ELSE
        /\ isProvider' = IF ~isProvider[provider]
                         THEN [isProvider EXCEPT ![provider] = TRUE]
                         ELSE isProvider
        /\ Mined
        /\ receipt' = Receipt("addProvider", caller, 0, Ok,
                              IF ~isProvider[provider] THEN <<ProviderAdded(provider)>> ELSE <<>>)
        /\ UNCHANGED <<owner, paused, cooldownSeconds, lastSubmissionTime,
                       lastDecryptionRequestTime, currentBatchId, batchClosed,
                       decryptionContexts, encryptedLastSignalTimestamp,
                       encryptedInactivityThreshold, oracle, signals, decryptionEvents>>

removeProvider(caller, provider) ==
    IF caller # owner THEN Revert("removeProvider", caller, 0, "NotOwner")
    ELSE
        /\ isProvider' = IF isProvider[provider]
                         THEN [isProvider EXCEPT ![provider] = FALSE]
                         ELSE isProvider
        /\ Mined
        /\ receipt' = Receipt("removeProvider", caller, 0, Ok,
                              IF isProvider[provider] THEN <<ProviderRemoved(provider)>> ELSE <<>>)
        /\ UNCHANGED <<owner, paused, cooldownSeconds, lastSubmissionTime,
                       lastDecryptionRequestTime, currentBatchId, batchClosed,
                       decryptionContexts, encryptedLastSignalTimestamp,
                       encryptedInactivityThreshold, oracle, signals, decryptionEvents>>

\* mutant: nothing is written or emitted when the flag already has the value
setPausedIfChanged(caller, p) ==
    IF caller # owner THEN Revert("setPaused", caller, 0, "NotOwner")
    ELSE
        /\ paused' = p
        /\ Mined
        /\ receipt' = Receipt("setPaused", caller, 0, Ok,
                              IF paused # p THEN <<PauseToggled(p)>> ELSE <<>>)
        /\ UNCHANGED <<owner, isProvider, cooldownSeconds, lastSubmissionTime,
                       lastDecryptionRequestTime, currentBatchId, batchClosed,
                       decryptionContexts, encryptedLastSignalTimestamp,
                       encryptedInactivityThreshold, oracle, signals, decryptionEvents>>

setPaused(caller, p) ==
    IF caller # owner THEN Revert("setPaused", caller, 0, "NotOwner")
    ELSE
        /\ paused' = p
        /\ Mined
        /\ receipt' = Receipt("setPaused", caller, 0, Ok, <<PauseToggled(p)>>)
        /\ UNCHANGED <<owner, isProvider, cooldownSeconds, lastSubmissionTime,
                       lastDecryptionRequestTime, currentBatchId, batchClosed,
                       decryptionContexts, encryptedLastSignalTimestamp,
                       encryptedInactivityThreshold, oracle, signals, decryptionEvents>>

setCooldownSeconds(caller, newCooldown) ==
    IF caller # owner THEN Revert("setCooldownSeconds", caller, 0, "NotOwner")
    ELSE
        /\ cooldownSeconds' = newCooldown
        /\ Mined
        /\ receipt' = Receipt("setCooldownSeconds", caller, 0, Ok,
                              <<CooldownSecondsUpdated(cooldownSeconds, newCooldown)>>)
        /\ UNCHANGED <<owner, isProvider, paused, lastSubmissionTime,
                       lastDecryptionRequestTime, currentBatchId, batchClosed,
                       decryptionContexts, encryptedLastSignalTimestamp,
                       encryptedInactivityThreshold, oracle, signals, decryptionEvents>>

----------------------------------------------------------------------------
(* Batch lifecycle *)

\* mutant: whenNotPaused listed before onlyOwner
openNewBatchErrorPauseFirst(caller) ==
    IF paused THEN "Paused"
    ELSE IF caller # owner THEN "NotOwner"
    ELSE Ok

openNewBatchError(caller) ==
    IF caller # owner THEN "NotOwner"
    ELSE IF paused THEN "Paused"
    ELSE Ok

openNewBatch(caller) ==
    IF openNewBatchError(caller) # Ok THEN Revert("openNewBatch", caller, 0, openNewBatchError(caller))
    ELSE
        /\ currentBatchId < MaxBatch
        /\ currentBatchId' = currentBatchId + 1
        /\ batchClosed' = [batchClosed EXCEPT ![currentBatchId + 1] = FALSE]
        /\ Mined
        /\ receipt' = Receipt("openNewBatch", caller, 0, Ok, <<BatchOpened(currentBatchId + 1)>>)
        /\ UNCHANGED <<owner, isProvider, paused, cooldownSeconds, lastSubmissionTime,
                       lastDecryptionRequestTime, decryptionContexts,
                       encryptedLastSignalTimestamp, encryptedInactivityThreshold,
                       oracle, signals, decryptionEvents>>

\* mutant: whenNotPaused listed before onlyOwner
closeCurrentBatchErrorPauseFirst(caller) ==
    IF paused THEN "Paused"
    ELSE IF caller # owner THEN "NotOwner"
    ELSE Ok

closeCurrentBatchError(caller) ==
    IF caller # owner THEN "NotOwner"
    ELSE IF paused THEN "Paused"
    ELSE Ok

\* mutant: closing a batch also moves on to the next batch id
closeCurrentBatchAdvance(caller) ==
    IF closeCurrentBatchError(caller) # Ok
    THEN Revert("closeCurrentBatch", caller, 0, closeCurrentBatchError(caller))
    ELSE
        /\ currentBatchId < MaxBatch
        /\ batchClosed' = [batchClosed EXCEPT ![currentBatchId] = TRUE]
        /\ currentBatchId' = currentBatchId + 1
        /\ Mined
        /\ receipt' = Receipt("closeCurrentBatch", caller, 0, Ok, <<BatchClosed(currentBatchId)>>)
        /\ UNCHANGED <<owner, isProvider, paused, cooldownSeconds, lastSubmissionTime,
                       lastDecryptionRequestTime, decryptionContexts,
                       encryptedLastSignalTimestamp, encryptedInactivityThreshold,
                       oracle, signals, decryptionEvents>>

\* mutant: closing toggles the flag, so closing a closed batch reopens it
closeCurrentBatchToggle(caller) ==
    IF closeCurrentBatchError(caller) # Ok
    THEN Revert("closeCurrentBatch", caller, 0, closeCurrentBatchError(caller))
    ELSE
        /\ batchClosed' = [batchClosed EXCEPT ![currentBatchId] = ~batchClosed[currentBatchId]]
        /\ Mined
        /\ receipt' = Receipt("closeCurrentBatch", caller, 0, Ok, <<BatchClosed(currentBatchId)>>)
        /\ UNCHANGED <<owner, isProvider, paused, cooldownSeconds, lastSubmissionTime,
                       lastDecryptionRequestTime, currentBatchId, decryptionContexts,
                       encryptedLastSignalTimestamp, encryptedInactivityThreshold,
                       oracle, signals, decryptionEvents>>

closeCurrentBatch(caller) ==
    IF closeCurrentBatchError(caller) # Ok
    THEN Revert("closeCurrentBatch", caller, 0, closeCurrentBatchError(caller))
    ELSE
        /\ batchClosed' = [batchClosed EXCEPT ![currentBatchId] = TRUE]
        /\ Mined
        /\ receipt' = Receipt("closeCurrentBatch", caller, 0, Ok, <<BatchClosed(currentBatchId)>>)
        /\ UNCHANGED <<owner, isProvider, paused, cooldownSeconds, lastSubmissionTime,
                       lastDecryptionRequestTime, currentBatchId, decryptionContexts,
                       encryptedLastSignalTimestamp, encryptedInactivityThreshold,
                       oracle, signals, decryptionEvents>>

----------------------------------------------------------------------------
(* Life-signal aggregator *)

\* _initIfNeeded assigns to its parameter `target`, not to the field it was
\* passed: the value of the persistent field after the call
initIfNeeded(target, value) == target

\* mutant: the aggregate is overwritten by the latest signal
aggregateSignalOverwrite(current, newTimestamp) == newTimestamp

\* mutant: a signal that does not raise the cleartext leaves the handle alone
aggregateSignalIfNewer(current, newTimestamp) ==
    IF isInitialized(current) /\ Clear(newTimestamp) <= Clear(current)
    THEN current
    ELSE FHEmax(current, newTimestamp)

\* mutant: only the first signal is ever folded in
aggregateSignalFirstOnly(current, newTimestamp) ==
    IF isInitialized(current) THEN current ELSE FHEmax(current, newTimestamp)

\* the aggregate written by submitLifeSignal for the wrapped input
aggregateSignal(current, newTimestamp) ==
    FHEmax(initIfNeeded(current, newTimestamp), newTimestamp)

Panic == "Panic"

\* checked uint256 addition: the sum of the uint256 values x, y does not fit
\* the word
AddOverflows(x, y) == AddLimbs(x, y, 0)[LimbCount + 1] # 0

\* outcome of the comparison block.timestamp < last + cooldownSeconds of the
\* two cooldown modifiers
cooldownCheck(last) ==
    LET sum == AddLimbs(toUint256(last), cooldownSeconds, 0)
    IN  IF sum[LimbCount + 1] # 0 THEN Panic
        ELSE IF LessLimbs(Limbs(now, LimbCount + 1), sum) THEN "CooldownActive"
        ELSE Ok

checkSubmissionCooldown(caller) == cooldownCheck(lastSubmissionTime[caller])

checkDecryptionCooldown(caller) == cooldownCheck(lastDecryptionRequestTime[caller])

submitLifeSignalError(caller) ==
    IF ~isProvider[caller] THEN "NotProvider"
    ELSE IF paused THEN "Paused"
    ELSE IF checkSubmissionCooldown(caller) # Ok THEN checkSubmissionCooldown(caller)
    ELSE IF batchClosed[currentBatchId] THEN "BatchClosedOrInvalid"
    ELSE Ok

submitLifeSignal(caller, encryptedTimestamp) ==
    /\ txCount < MaxTx
    /\ IF submitLifeSignalError(caller) # Ok
       THEN Revert("submitLifeSignal", caller, 0, submitLifeSignalError(caller))
       ELSE
           /\ lastSubmissionTime' = [lastSubmissionTime EXCEPT ![caller] = now]
           /\ signals' = Append(signals, encryptedTimestamp)
           /\ encryptedLastSignalTimestamp' =
                  aggregateSignal(encryptedLastSignalTimestamp, asEuint32(encryptedTimestamp))
           /\ Mined
           /\ receipt' = Receipt("submitLifeSignal", caller, 0, Ok, <<SignalSubmitted(caller, currentBatchId)>>)
           /\ UNCHANGED <<owner, isProvider, paused, cooldownSeconds,
                          lastDecryptionRequestTime, currentBatchId, batchClosed,
                          decryptionContexts, encryptedInactivityThreshold, oracle,
                          decryptionEvents>>

\* mutant: whenNotPaused is missing
setInactivityThresholdErrorNoPause(caller, encryptedThreshold) ==
    IF caller # owner THEN "NotOwner"
    ELSE IF ~isInitialized(asEuint32(encryptedThreshold)) THEN "InvalidThreshold"
    ELSE Ok

\* mutant: the wrapped input is stored without the initialization check
setInactivityThresholdErrorNoInit(caller, encryptedThreshold) ==
    IF caller # owner THEN "NotOwner"
    ELSE IF paused THEN "Paused"
    ELSE Ok

setInactivityThresholdError(caller, encryptedThreshold) ==
    IF caller # owner THEN "NotOwner"
    ELSE IF paused THEN "Paused"
    ELSE IF ~isInitialized(asEuint32(encryptedThreshold)) THEN "InvalidThreshold"
    ELSE Ok

\* mutant: the new threshold is aggregated with the stored one
setInactivityThresholdMax(caller, encryptedThreshold) ==
    IF setInactivityThresholdError(caller, encryptedThreshold) # Ok
    THEN Revert("setInactivityThreshold", caller, 0, setInactivityThresholdError(caller, encryptedThreshold))
    ELSE
        /\ encryptedInactivityThreshold' =
               IF isInitialized(encryptedInactivityThreshold)
               THEN FHEmax(encryptedInactivityThreshold, asEuint32(encryptedThreshold))
               ELSE asEuint32(encryptedThreshold)
        /\ Mined
        /\ receipt' = Receipt("setInactivityThreshold", caller, 0, Ok,
                              <<ThresholdSet(currentBatchId, encryptedThreshold)>>)
        /\ UNCHANGED <<owner, isProvider, paused, cooldownSeconds, lastSubmissionTime,
                       lastDecryptionRequestTime, currentBatchId, batchClosed,
                       decryptionContexts, encryptedLastSignalTimestamp, oracle, signals, decryptionEvents>>

setInactivityThreshold(caller, encryptedThreshold) ==
    IF setInactivityThresholdError(caller, encryptedThreshold) # Ok
    THEN Revert("setInactivityThreshold", caller, 0, setInactivityThresholdError(caller, encryptedThreshold))
    ELSE
        /\ encryptedInactivityThreshold' = asEuint32(encryptedThreshold)
        /\ Mined
        /\ receipt' = Receipt("setInactivityThreshold", caller, 0, Ok,
                              <<ThresholdSet(currentBatchId, encryptedThreshold)>>)
        /\ UNCHANGED <<owner, isProvider, paused, cooldownSeconds, lastSubmissionTime,
                       lastDecryptionRequestTime, currentBatchId, batchClosed,
                       decryptionContexts, encryptedLastSignalTimestamp, oracle, signals, decryptionEvents>>

----------------------------------------------------------------------------
(* Decryption request / response protocol *)

\* mutant: operands of the subtraction swapped
triggerHandleSwapped(lastSignal, threshold, timestamp) ==
    FHEge(FHEsub(lastSignal, asEuint32(timestamp)), threshold)

\* the trigger ciphertext both the request and the callback derive
\* mutant: the elapsed time is clamped at zero when the aggregate lies ahead
triggerHandleClamped(lastSignal, threshold, timestamp) ==
    FHEge(FHEsub(FHEmax(asEuint32(timestamp), lastSignal), lastSignal), threshold)

triggerHandle(lastSignal, threshold, timestamp) ==
    FHEge(FHEsub(asEuint32(timestamp), lastSignal), threshold)

\* cts[0..2] as built by checkInheritanceTrigger and rebuilt by myCallback
ciphertexts(lastSignal, threshold, timestamp) ==
    <<toBytes32(lastSignal), toBytes32(threshold),
      toBytes32(triggerHandle(lastSignal, threshold, timestamp))>>

\* mutant: the context is stored already finalized
newContextProcessed(batchId, stateHash) ==
    [batchId |-> batchId, stateHash |-> stateHash, processed |-> TRUE]

\* mutant: the context does not record the batch of the request
newContextNoBatch(batchId, stateHash) ==
    [batchId |-> 0, stateHash |-> stateHash, processed |-> FALSE]

\* DecryptionContext({batchId, stateHash, processed: false})
newContext(batchId, stateHash) ==
    [batchId |-> batchId, stateHash |-> stateHash, processed |-> FALSE]

\* mutant: the initialization check moved ahead of the modifiers
checkInheritanceTriggerErrorInitFirst(caller) ==
    IF ~isInitialized(encryptedLastSignalTimestamp)
       \/ ~isInitialized(encryptedInactivityThreshold) THEN "InvalidThreshold"
    ELSE IF paused THEN "Paused"
    ELSE IF checkDecryptionCooldown(caller) # Ok THEN checkDecryptionCooldown(caller)
    ELSE IF batchClosed[currentBatchId] THEN "BatchClosedOrInvalid"
    ELSE Ok

\* mutant: the batch check is missing
checkInheritanceTriggerErrorNoBatch(caller) ==
    IF paused THEN "Paused"
    ELSE IF checkDecryptionCooldown(caller) # Ok THEN checkDecryptionCooldown(caller)
    ELSE IF ~isInitialized(encryptedLastSignalTimestamp)
            \/ ~isInitialized(encryptedInactivityThreshold) THEN "InvalidThreshold"
    ELSE Ok

\* mutant: the decryption cooldown is measured from the caller's last submission
checkInheritanceTriggerErrorSharedBucket(caller) ==
    IF paused THEN "Paused"
    ELSE IF checkSubmissionCooldown(caller) # Ok THEN checkSubmissionCooldown(caller)
    ELSE IF ~isInitialized(encryptedLastSignalTimestamp)
            \/ ~isInitialized(encryptedInactivityThreshold) THEN "InvalidThreshold"
    ELSE IF batchClosed[currentBatchId] THEN "BatchClosedOrInvalid"
    ELSE Ok

checkInheritanceTriggerError(caller) ==
    IF paused THEN "Paused"
    ELSE IF checkDecryptionCooldown(caller) # Ok THEN checkDecryptionCooldown(caller)
    ELSE IF ~isInitialized(encryptedLastSignalTimestamp)
            \/ ~isInitialized(encryptedInactivityThreshold) THEN "InvalidThreshold"
    ELSE IF batchClosed[currentBatchId] THEN "BatchClosedOrInvalid"
    ELSE Ok

\* mutant: a new request cancels the requests still pending
checkInheritanceTriggerSupersede(caller) ==
    IF checkInheritanceTriggerError(caller) # Ok
    THEN Revert("checkInheritanceTrigger", caller, 0, checkInheritanceTriggerError(caller))
    ELSE
        LET cts == ciphertexts(encryptedLastSignalTimestamp,
                               encryptedInactivityThreshold, now)
            requestId == requestCounter + 1
        IN  /\ requestCounter < MaxRequests
            /\ lastDecryptionRequestTime' = [lastDecryptionRequestTime EXCEPT ![caller] = now]
            /\ requestCounter' = requestId
            /\ oracleRequests' = [oracleRequests EXCEPT ![requestId] = cts]
            /\ decryptionContexts' =
                   [r \in RequestIds |->
                       IF r = requestId THEN newContext(currentBatchId, hashCiphertexts(cts))
                       ELSE IF decryptionContexts[r].processed THEN decryptionContexts[r]
                       ELSE NullContext]
            /\ Mined
            /\ receipt' = Receipt("checkInheritanceTrigger", caller, requestId, Ok,
                                  <<DecryptionRequested(requestId, currentBatchId)>>)
            /\ decryptionEvents' =
                   Append(decryptionEvents, DecryptionRequested(requestId, currentBatchId))
            /\ UNCHANGED <<owner, isProvider, paused, cooldownSeconds, lastSubmissionTime,
                           currentBatchId, batchClosed, encryptedLastSignalTimestamp,
                           encryptedInactivityThreshold, signals>>

checkInheritanceTrigger(caller) ==
    /\ txCount < MaxTx
    /\ IF checkInheritanceTriggerError(caller) # Ok
       THEN Revert("checkInheritanceTrigger", caller, 0, checkInheritanceTriggerError(caller))
       ELSE
           LET cts == ciphertexts(encryptedLastSignalTimestamp,
                                  encryptedInactivityThreshold, now)
               requestId == requestCounter + 1
           IN  /\ requestCounter < MaxRequests
               /\ lastDecryptionRequestTime' = [lastDecryptionRequestTime EXCEPT ![caller] = now]
               /\ requestCounter' = requestId
               /\ oracleRequests' = [oracleRequests EXCEPT ![requestId] = cts]
               /\ decryptionContexts' =
                      [decryptionContexts EXCEPT ![requestId] =
                          newContext(currentBatchId, hashCiphertexts(cts))]
               /\ Mined
               /\ receipt' = Receipt("checkInheritanceTrigger", caller, requestId, Ok,
                                     <<DecryptionRequested(requestId, currentBatchId)>>)
               /\ decryptionEvents' =
                      Append(decryptionEvents, DecryptionRequested(requestId, currentBatchId))
               /\ UNCHANGED <<owner, isProvider, paused, cooldownSeconds, lastSubmissionTime,
                              currentBatchId, batchClosed, encryptedLastSignalTimestamp,
                              encryptedInactivityThreshold, signals>>

\* mutant: the replay check comes after the hash check
myCallbackErrorHashFirst(requestId, cleartexts, proof) ==
    IF hashCiphertexts(ciphertexts(encryptedLastSignalTimestamp,
                                   encryptedInactivityThreshold, now))
       # decryptionContexts[requestId].stateHash THEN "StateMismatch"
    ELSE IF decryptionContexts[requestId].processed THEN "ReplayDetected"
    ELSE IF ~checkSignatures(requestId, cleartexts, proof) THEN "DecryptionFailed"
    ELSE Ok

\* mutant: the hash check looks at the aggregate only, not at the threshold
myCallbackErrorAggregateOnly(requestId, cleartexts, proof) ==
    IF decryptionContexts[requestId].processed THEN "ReplayDetected"
    ELSE IF decryptionContexts[requestId].stateHash = NullHash
            \/ toBytes32(encryptedLastSignalTimestamp)
                 # decryptionContexts[requestId].stateHash.cts[1] THEN "StateMismatch"
    ELSE IF ~checkSignatures(requestId, cleartexts, proof) THEN "DecryptionFailed"
    ELSE Ok

\* mutant: the proof is not verified
myCallbackErrorUnverified(requestId, cleartexts, proof) ==
    IF decryptionContexts[requestId].processed THEN "ReplayDetected"
    ELSE IF hashCiphertexts(ciphertexts(encryptedLastSignalTimestamp,
                                        encryptedInactivityThreshold, now))
            # decryptionContexts[requestId].stateHash THEN "StateMismatch"
    ELSE Ok

\* mutant: only the two stored handles are compared, not the re-derived trigger
myCallbackErrorStoredHandles(requestId, cleartexts, proof) ==
    IF decryptionContexts[requestId].processed THEN "ReplayDetected"
    ELSE IF decryptionContexts[requestId].stateHash = NullHash
            \/ toBytes32(encryptedLastSignalTimestamp)
                 # decryptionContexts[requestId].stateHash.cts[1]
            \/ toBytes32(encryptedInactivityThreshold)
                 # decryptionContexts[requestId].stateHash.cts[2] THEN "StateMismatch"
    ELSE IF ~checkSignatures(requestId, cleartexts, proof) THEN "DecryptionFailed"
    ELSE Ok

\* mutant: the processed flag is not consulted
myCallbackErrorNoReplayGuard(requestId, cleartexts, proof) ==
    IF hashCiphertexts(ciphertexts(encryptedLastSignalTimestamp,
                                   encryptedInactivityThreshold, now))
            # decryptionContexts[requestId].stateHash THEN "StateMismatch"
    ELSE IF ~checkSignatures(requestId, cleartexts, proof) THEN "DecryptionFailed"
    ELSE Ok

\* mutant: the callback is refused while the system is paused
myCallbackErrorWhenNotPaused(requestId, cleartexts, proof) ==
    IF paused THEN "Paused"
    ELSE IF decryptionContexts[requestId].processed THEN "ReplayDetected"
    ELSE IF hashCiphertexts(ciphertexts(encryptedLastSignalTimestamp,
                                        encryptedInactivityThreshold, now))
            # decryptionContexts[requestId].stateHash THEN "StateMismatch"
    ELSE IF ~checkSignatures(requestId, cleartexts, proof) THEN "DecryptionFailed"
    ELSE Ok

myCallbackError(requestId, cleartexts, proof) ==
    IF decryptionContexts[requestId].processed THEN "ReplayDetected"
    ELSE IF hashCiphertexts(ciphertexts(encryptedLastSignalTimestamp,
                                        encryptedInactivityThreshold, now))
            # decryptionContexts[requestId].stateHash THEN "StateMismatch"
    ELSE IF ~checkSignatures(requestId, cleartexts, proof) THEN "DecryptionFailed"
    ELSE Ok

\* mutant: a delivery whose proof fails is marked processed and reported,
\* instead of reverting
myCallbackConsumeOnBadProof(requestId, cleartexts, proof) ==
    IF myCallbackError(requestId, cleartexts, proof) = "DecryptionFailed"
    THEN
        /\ decryptionContexts' = [decryptionContexts EXCEPT ![requestId].processed = TRUE]
        /\ txCount < MaxTx
        /\ txCount' = txCount + 1
        /\ receipt' = Receipt("myCallback", ZeroAddress, requestId, "DecryptionFailed", <<>>)
        /\ UNCHANGED <<owner, isProvider, paused, cooldownSeconds, lastSubmissionTime,
                       lastDecryptionRequestTime, currentBatchId, batchClosed,
                       encryptedLastSignalTimestamp, encryptedInactivityThreshold,
                       oracle, ledger>>
    ELSE IF myCallbackError(requestId, cleartexts, proof) # Ok
    THEN Revert("myCallback", ZeroAddress, requestId, myCallbackError(requestId, cleartexts, proof))
    ELSE
        /\ decryptionContexts' = [decryptionContexts EXCEPT ![requestId].processed = TRUE]
        /\ Mined
        /\ receipt' = Receipt("myCallback", ZeroAddress, requestId, Ok,
               <<DecryptionCompleted(requestId, decryptionContexts[requestId].batchId,
                                     cleartexts[1], cleartexts[2], cleartexts[3] = 1)>>)
        /\ decryptionEvents' = Append(decryptionEvents, receipt'.logs[1])
        /\ UNCHANGED <<owner, isProvider, paused, cooldownSeconds, lastSubmissionTime,
                       lastDecryptionRequestTime, currentBatchId, batchClosed,
                       encryptedLastSignalTimestamp, encryptedInactivityThreshold,
                       oracle, signals>>

myCallback(requestId, cleartexts, proof) ==
    IF myCallbackError(requestId, cleartexts, proof) # Ok
    THEN Revert("myCallback", ZeroAddress, requestId, myCallbackError(requestId, cleartexts, proof))
    ELSE
        /\ decryptionContexts' = [decryptionContexts EXCEPT ![requestId].processed = TRUE]
        /\ Mined
        /\ receipt' = Receipt("myCallback", ZeroAddress, requestId, Ok,
               <<DecryptionCompleted(requestId, decryptionContexts[requestId].batchId,
                                     cleartexts[1], cleartexts[2], cleartexts[3] = 1)>>)
        /\ decryptionEvents' = Append(decryptionEvents, receipt'.logs[1])
        /\ UNCHANGED <<owner, isProvider, paused, cooldownSeconds, lastSubmissionTime,
                       lastDecryptionRequestTime, currentBatchId, batchClosed,
                       encryptedLastSignalTimestamp, encryptedInactivityThreshold,
                       oracle, signals>>

----------------------------------------------------------------------------
(* Environment: a later block *)

NewBlock ==
    /\ \E t \in Times : t > now /\ now' = t
    /\ receipt' = Receipt("newBlock", ZeroAddress, 0, Ok, <<>>)
    /\ UNCHANGED <<storage, oracle, txCount, signals, decryptionEvents>>

----------------------------------------------------------------------------

Next ==
    \/ \E c \in Addresses, a \in Addresses : transferOwnership(c, a)
    \/ \E c \in Addresses, a \in Addresses : addProvider(c, a)
    \/ \E c \in Addresses, a \in Addresses : removeProvider(c, a)
    \/ \E c \in Addresses, p \in BOOLEAN : setPaused(c, p)
    \/ \E c \in Addresses, n \in CooldownInputs : setCooldownSeconds(c, n)
    \/ \E c \in Addresses : openNewBatch(c)
    \/ \E c \in Addresses : closeCurrentBatch(c)
    \/ \E c \in Addresses, x \in SignalInputs : submitLifeSignal(c, x)
    \/ \E c \in Addresses, x \in ThresholdInputs : setInactivityThreshold(c, x)
    \/ \E c \in Addresses : checkInheritanceTrigger(c)
    \/ \E d \in Deliveries : myCallback(d.rid, d.clear, d.proof)
    \/ NewBlock

Spec == Init /\ [][Next]_vars

----------------------------------------------------------------------------
(* Properties *)

\* the latest transaction was a successful checkInheritanceTrigger returning r
JustRequested(r) ==
    /\ receipt.op = "checkInheritanceTrigger"
    /\ receipt.err = Ok
    /\ receipt.id = r

Pending(r) == r \in Requested /\ ~decryptionContexts[r].processed

\* cleartext reference for the trigger, in the 32-bit unsigned arithmetic of euint32
RefTrigger(t, lastSignal, threshold) ==
    ((t - lastSignal) % Uint32Modulus) >= threshold

\* cleartext reference for the trigger over the integers
RefTriggerInt(t, lastSignal, threshold) == (t - lastSignal) >= threshold

RECURSIVE SeqMax(_)
SeqMax(q) == IF Len(q) = 1 THEN q[1] ELSE MaxOf(q[Len(q)], SeqMax(SubSeq(q, 1, Len(q) - 1)))

\* the latest transaction was a callback for a request that was pending before it
CallbackFor(r) == receipt'.op = "myCallback" /\ receipt'.id = r

\* the decision a callback for r emits when the reference trigger is ref
DecisionFor(r, ref) ==
    DecryptionCompleted(r, decryptionContexts[r].batchId,
                        Clear(encryptedLastSignalTimestamp),
                        Clear(encryptedInactivityThreshold), ref)

\* a callback for r, delivered with the oracle's cleartexts and proof right after
\* the request, is accepted; an accepted one finalizes r and reports ref
ImmediateCallback(r, ref) ==
    /\ \A d \in GenuineDeliveries :
          d.rid = r => myCallbackError(d.rid, d.clear, d.proof) = Ok
    /\ CallbackFor(r)
       => /\ receipt'.err \in {Ok, "DecryptionFailed"}
          /\ receipt'.err = Ok
             => /\ decryptionContexts'[r].processed
                /\ receipt'.logs = <<DecisionFor(r, ref)>>

\* C1 (as amended): a successful checkInheritanceTrigger followed at once, in the
\* same block, by the callback for the returned requestId with the oracle's
\* proof succeeds, marks the context processed and reports
\* trigger = ((now - lastSignal) mod 2^32 >= threshold).
C1_ImmediateCallbackReportsWrappedTrigger ==
    [][\A r \in RequestIds :
          JustRequested(r)
          => ImmediateCallback(r, RefTrigger(now, Clear(encryptedLastSignalTimestamp),
                                             Clear(encryptedInactivityThreshold)))]_vars

\* C1 witness: the scenario lastSignal = 1000, threshold = 500, now = 1600 has
\* been answered with trigger = true
C1_Witness ==
    /\ receipt.op = "myCallback"
    /\ receipt.err = Ok
    /\ now = 1600
    /\ receipt.logs = <<DecryptionCompleted(receipt.id, 1, 1000, 500, TRUE)>>
    /\ decryptionContexts[receipt.id].processed

\* C1 (as stated): the same, with trigger = (now - lastSignal >= threshold)
\* computed over the integers.
C1_ImmediateCallbackReportsIntegerTrigger ==
    [][\A r \in RequestIds :
          JustRequested(r)
          => ImmediateCallback(r, RefTriggerInt(now, Clear(encryptedLastSignalTimestamp),
                                                Clear(encryptedInactivityThreshold)))]_vars

\* a life signal was accepted after request r was recorded
SignalSince(r) ==
    SignalCount(encryptedLastSignalTimestamp)
        > SignalCount(decryptionContexts[r].stateHash.cts[1])

\* C2: once a submitLifeSignal has been accepted after a request was recorded,
\* every callback delivery for that request fails with StateMismatch, whatever
\* value was submitted; the context stays unprocessed and nothing is emitted.
C2_SignalBetweenFailsCallback ==
    [][\A r \in RequestIds :
          ( /\ CallbackFor(r)
            /\ Pending(r)
            /\ \/ SignalSince(r)
               \/ receipt.op = "submitLifeSignal" /\ receipt.err = Ok )
          => /\ receipt'.err = "StateMismatch"
             /\ ~decryptionContexts'[r].processed
             /\ receipt'.logs = <<>>]_vars

\* C2 witness: a callback failed with StateMismatch for a pending request after
\* a signal that did not raise the cleartext aggregate
C2_Witness ==
    /\ receipt.op = "myCallback"
    /\ receipt.err = "StateMismatch"
    /\ Pending(receipt.id)
    /\ SignalSince(receipt.id)
    /\ Clear(encryptedLastSignalTimestamp)
         = Clear(decryptionContexts[receipt.id].stateHash.cts[1])

\* C3: every callback delivery for an already processed request fails with
\* ReplayDetected, whatever the state, cleartexts or proof, and changes nothing.
C3_ReplayRejected ==
    [][\A r \in RequestIds :
          (decryptionContexts[r].processed /\ CallbackFor(r))
          => /\ receipt'.err = "ReplayDetected"
             /\ receipt'.logs = <<>>
             /\ UNCHANGED <<storage, oracle, ledger>>]_vars

\* C3 witness: a replay was rejected although the live state no longer matches
\* the stored hash
C3_Witness ==
    /\ receipt.op = "myCallback"
    /\ receipt.err = "ReplayDetected"
    /\ decryptionContexts[receipt.id].processed
    /\ hashCiphertexts(ciphertexts(encryptedLastSignalTimestamp,
                                   encryptedInactivityThreshold, now))
         # decryptionContexts[receipt.id].stateHash

\* C4: a context's processed flag never goes back to false, and it becomes true
\* only in a successful callback for that requestId.
C4_ProcessedFlipsOnce ==
    [][\A r \in RequestIds :
          /\ decryptionContexts[r].processed => decryptionContexts'[r].processed
          /\ (~decryptionContexts[r].processed /\ decryptionContexts'[r].processed)
             => (receipt'.op = "myCallback" /\ receipt'.err = Ok /\ receipt'.id = r)]_vars

\* C4 witness: a later checkInheritanceTrigger succeeded while an earlier
\* request is processed
C4_Witness ==
    /\ receipt.op = "checkInheritanceTrigger"
    /\ receipt.err = Ok
    /\ \E r \in RequestIds : r # receipt.id /\ decryptionContexts[r].processed

\* C5: after any sequence of accepted submitLifeSignal calls the cleartext of the
\* aggregate is the maximum of the submitted timestamps.
C5_AggregateIsMax ==
    Len(signals) > 0 => Clear(encryptedLastSignalTimestamp) = SeqMax(signals)

\* C5 witness: two signals accepted, the later one smaller than the earlier
C5_Witness ==
    /\ Len(signals) = 2
    /\ signals[2] < signals[1]
    /\ Clear(encryptedLastSignalTimestamp) = signals[1]

\* C6: the first accepted submitLifeSignal seeds the uninitialized aggregate with
\* the submitted value: afterwards the field holds the wrapped input (or its
\* maximum with itself), not a maximum against an uninitialized operand.
C6_FirstSignalSeeds ==
    [][(receipt'.op = "submitLifeSignal" /\ receipt'.err = Ok
        /\ ~isInitialized(encryptedLastSignalTimestamp))
       => LET v == asEuint32(signals'[Len(signals')])
          IN  encryptedLastSignalTimestamp' \in {v, FHEmax(v, v)}]_vars

\* C7: the cleartext of the aggregate, once defined, never decreases, and the
\* aggregate is changed by nothing but a successful submitLifeSignal.
C7_AggregateMonotone ==
    [][encryptedLastSignalTimestamp' # encryptedLastSignalTimestamp
       => /\ receipt'.op = "submitLifeSignal" /\ receipt'.err = Ok
          /\ isInitialized(encryptedLastSignalTimestamp)
             => /\ isInitialized(encryptedLastSignalTimestamp')
                /\ Clear(encryptedLastSignalTimestamp')
                     >= Clear(encryptedLastSignalTimestamp)]_vars

\* C7 witness: a smaller timestamp was accepted after a larger one and the
\* aggregate kept the larger
C7_Witness ==
    /\ receipt.op = "submitLifeSignal"
    /\ receipt.err = Ok
    /\ Len(signals) = 2
    /\ signals[1] = 1580
    /\ signals[2] = 1000
    /\ Clear(encryptedLastSignalTimestamp) = 1580

OwnerOnlyOps ==
    {"transferOwnership", "addProvider", "removeProvider", "setPaused",
     "setCooldownSeconds", "openNewBatch", "closeCurrentBatch",
     "setInactivityThreshold"}

\* C8: submitLifeSignal by a non-provider fails with NotProvider and every
\* owner-only operation by a non-owner fails with NotOwner; nothing changes.
C8_UnauthorizedRejected ==
    [][/\ (receipt'.op = "submitLifeSignal" /\ ~isProvider[receipt'.caller])
          => (receipt'.err = "NotProvider" /\ UNCHANGED <<storage, oracle, ledger>>)
       /\ (receipt'.op \in OwnerOnlyOps /\ receipt'.caller # owner)
          => (receipt'.err = "NotOwner" /\ UNCHANGED <<storage, oracle, ledger>>)]_vars

\* C8 witness: a provider that is not the owner was refused a batch operation
\* while the system was paused
C8_Witness ==
    /\ receipt.op = "openNewBatch"
    /\ receipt.err = "NotOwner"
    /\ receipt.caller # owner
    /\ isProvider[receipt.caller]
    /\ paused

\* now >= last + cooldownSeconds over the natural numbers, the cooldown
\* condition as the specification states it
CooldownElapsedSince(last) ==
    ~LessLimbs(Limbs(now, LimbCount + 1),
               AddLimbs(toUint256(last), cooldownSeconds, 0))

SubmissionCooldownElapsed(c) == CooldownElapsedSince(lastSubmissionTime[c])

DecryptionCooldownElapsed(c) == CooldownElapsedSince(lastDecryptionRequestTime[c])

\* C9: for a provider, unpaused, batch open, submitLifeSignal is accepted exactly
\* when now >= lastSubmissionTime[p] + cooldownSeconds, and fails with
\* CooldownActive otherwise.
C9_CooldownExact ==
    [][( /\ receipt'.op = "submitLifeSignal"
         /\ isProvider[receipt'.caller]
         /\ ~paused
         /\ ~batchClosed[currentBatchId] )
       => IF SubmissionCooldownElapsed(receipt'.caller)
          THEN receipt'.err = Ok /\ lastSubmissionTime'[receipt'.caller] = now
          ELSE receipt'.err = "CooldownActive"]_vars

\* C10: a failed operation leaves storage, oracle and ledger as they were and
\* emits no event.
C10_FailureChangesNothing ==
    [][receipt'.err # Ok
       => (UNCHANGED <<storage, oracle, ledger>> /\ receipt'.logs = <<>>)]_vars

\* C10 witness: a callback was rejected for a bad proof while the hash matched
C10_Witness ==
    /\ receipt.op = "myCallback"
    /\ receipt.err = "DecryptionFailed"
    /\ Pending(receipt.id)

\* the binding hash recomputed from the live state equals the one stored for r
HashMatches(r) ==
    hashCiphertexts(ciphertexts(encryptedLastSignalTimestamp,
                                encryptedInactivityThreshold, now))
        = decryptionContexts[r].stateHash

\* the live aggregate or threshold handle is not the one recorded for request r
HandlesReplaced(r) ==
    \/ toBytes32(encryptedLastSignalTimestamp) # decryptionContexts[r].stateHash.cts[1]
    \/ toBytes32(encryptedInactivityThreshold) # decryptionContexts[r].stateHash.cts[2]

\* the latest transaction was a successful setInactivityThreshold
JustSetThreshold ==
    receipt.op = "setInactivityThreshold" /\ receipt.err = Ok

\* a callback for r finalizes it only when the recomputed hash equals the stored one
SucceedsOnlyOnMatch(r) ==
    ( \/ receipt'.err = Ok
      \/ decryptionContexts'[r].processed /\ ~decryptionContexts[r].processed
      \/ receipt'.logs # <<>> )
    => HashMatches(r)

StateMismatchFor(r) ==
    /\ receipt'.err = "StateMismatch"
    /\ ~decryptionContexts'[r].processed
    /\ receipt'.logs = <<>>

\* C11 (as amended): a callback for r succeeds only if the hash recomputed from
\* the live aggregate, threshold and trigger equals the stored stateHash; if
\* since the request the stored threshold handle has been replaced by a different
\* one (a different value) or the aggregate has been updated, every callback for
\* the pending r fails with StateMismatch.
C11_SucceedsOnlyOnMatchingHash ==
    [][\A r \in RequestIds :
          CallbackFor(r)
          => /\ SucceedsOnlyOnMatch(r)
             /\ (Pending(r) /\ HandlesReplaced(r)) => StateMismatchFor(r)]_vars

\* C11 witness: a callback for a pending request failed with StateMismatch, in
\* the block of the request and with the aggregate untouched, because the owner
\* had stored another threshold
C11_Witness ==
    /\ receipt.op = "myCallback"
    /\ receipt.err = "StateMismatch"
    /\ Pending(receipt.id)
    /\ LET cts == decryptionContexts[receipt.id].stateHash.cts
       IN  /\ toBytes32(encryptedLastSignalTimestamp) = cts[1]
           /\ toBytes32(encryptedInactivityThreshold) # cts[2]
           /\ cts[3] = toBytes32(triggerHandle(cts[1], cts[2], now))

\* C11 (as stated): the same, and every callback for a pending r that follows a
\* successful setInactivityThreshold fails with StateMismatch, whatever value the
\* owner stored.
C11_AnyThresholdSetFailsCallback ==
    [][\A r \in RequestIds :
          CallbackFor(r)
          => /\ SucceedsOnlyOnMatch(r)
             /\ (Pending(r) /\ (HandlesReplaced(r) \/ JustSetThreshold))
                => StateMismatchFor(r)]_vars

\* C12: a callback for a pending request whose hash check passes is accepted
\* when its proof verifies for (requestId, cleartexts); otherwise it fails with
\* DecryptionFailed, the context stays unprocessed and nothing is emitted or
\* changed, so that the oracle's delivery for the same requestId is still
\* accepted afterwards.
C12_BadProofLeavesRequestPending ==
    [][\A r \in RequestIds :
          (CallbackFor(r) /\ Pending(r) /\ HashMatches(r))
          => /\ \A d \in Deliveries :
                   (d.rid = r /\ myCallback(d.rid, d.clear, d.proof))
                   => IF checkSignatures(d.rid, d.clear, d.proof)
                      THEN receipt'.err = Ok
                      ELSE receipt'.err = "DecryptionFailed"
             /\ receipt'.err = "DecryptionFailed"
                => /\ ~decryptionContexts'[r].processed
                   /\ receipt'.logs = <<>>
                   /\ UNCHANGED <<storage, oracle, ledger>>
                   /\ \E d \in GenuineDeliveries :
                         /\ d.rid = r
                         /\ myCallbackError(d.rid, d.clear, d.proof) = Ok]_vars

\* C12 witness: a delivery carrying the oracle's cleartexts under a forged proof
\* was refused while the hash matched, and the oracle's own delivery can still
\* be mined
C12_Witness ==
    /\ receipt.op = "myCallback"
    /\ receipt.err = "DecryptionFailed"
    /\ Pending(receipt.id)
    /\ HashMatches(receipt.id)
    /\ txCount < MaxTx
    /\ \E d \in GenuineDeliveries :
          d.rid = receipt.id /\ myCallbackError(d.rid, d.clear, d.proof) = Ok

\* the first element of a list of <<failed, error>> pairs whose check fails
RECURSIVE FirstFailing(_)
FirstFailing(checks) ==
    IF checks = <<>> THEN Ok
    ELSE IF checks[1][1] THEN checks[1][2]
    ELSE FirstFailing(Tail(checks))

SubmissionCooldownActive(c) == checkSubmissionCooldown(c) = "CooldownActive"

DecryptionCooldownActive(c) == checkDecryptionCooldown(c) = "CooldownActive"


CurrentBatchClosed == batchClosed[currentBatchId]

Uninitialized ==
    \/ ~isInitialized(encryptedLastSignalTimestamp)
    \/ ~isInitialized(encryptedInactivityThreshold)

\* C13: submitLifeSignal reports the first failing precondition in the order
\* NotProvider, Paused, CooldownActive, BatchClosedOrInvalid, and succeeds when
\* none fails.
C13_SubmitPreconditionOrder ==
    [][receipt'.op = "submitLifeSignal"
       => receipt'.err =
            FirstFailing(<< <<~isProvider[receipt'.caller], "NotProvider">>,
                            <<paused, "Paused">>,
                            <<~SubmissionCooldownElapsed(receipt'.caller), "CooldownActive">>,
                            <<CurrentBatchClosed, "BatchClosedOrInvalid">> >>)]_vars

\* C14 (as amended): checkInheritanceTrigger reports the first failing
\* precondition in the order Paused, cooldown, InvalidThreshold,
\* BatchClosedOrInvalid, the cooldown failure being CooldownActive, or an
\* arithmetic panic when lastDecryptionRequestTime + cooldownSeconds does not
\* fit a uint256; with an uninitialized ciphertext it fails with
\* InvalidThreshold when the system is unpaused and the caller's cooldown has
\* elapsed.
C14_CheckPreconditionOrderModifiersFirst ==
    [][receipt'.op = "checkInheritanceTrigger"
       => receipt'.err =
            FirstFailing(<< <<paused, "Paused">>,
                            <<~DecryptionCooldownElapsed(receipt'.caller),
                              IF AddOverflows(
                                     toUint256(lastDecryptionRequestTime[receipt'.caller]),
                                     cooldownSeconds)
                              THEN Panic ELSE "CooldownActive">>,
                            <<Uninitialized, "InvalidThreshold">>,
                            <<CurrentBatchClosed, "BatchClosedOrInvalid">> >>)]_vars

\* C14 witness: with the aggregate uninitialized and the current batch closed, an
\* unpaused call outside any cooldown was refused with InvalidThreshold
C14_Witness ==
    /\ receipt.op = "checkInheritanceTrigger"
    /\ receipt.err = "InvalidThreshold"
    /\ ~isInitialized(encryptedLastSignalTimestamp)
    /\ isInitialized(encryptedInactivityThreshold)
    /\ CurrentBatchClosed
    /\ ~paused
    /\ DecryptionCooldownElapsed(receipt.caller)

\* C14 (as stated): checkInheritanceTrigger reports the first failing
\* precondition in the order InvalidThreshold, Paused, CooldownActive,
\* BatchClosedOrInvalid.
C14_CheckPreconditionOrderInitFirst ==
    [][receipt'.op = "checkInheritanceTrigger"
       => receipt'.err =
            FirstFailing(<< <<Uninitialized, "InvalidThreshold">>,
                            <<paused, "Paused">>,
                            <<~DecryptionCooldownElapsed(receipt'.caller), "CooldownActive">>,
                            <<CurrentBatchClosed, "BatchClosedOrInvalid">> >>)]_vars

\* request ids under which a context is stored
ContextIds == {r \in RequestIds : decryptionContexts[r] # NullContext}

\* C15: while the current batch is closed no submitLifeSignal and no
\* checkInheritanceTrigger succeeds, a call that passes the other preconditions
\* is rejected with BatchClosedOrInvalid, and no step changes the aggregate, the
\* cooldown timestamps or the set of stored contexts.
C15_ClosedBatchRejects ==
    [][CurrentBatchClosed
       => /\ receipt'.op \in {"submitLifeSignal", "checkInheritanceTrigger"}
             => receipt'.err # Ok
          /\ ( /\ receipt'.op = "submitLifeSignal"
               /\ isProvider[receipt'.caller]
               /\ ~paused
               /\ SubmissionCooldownElapsed(receipt'.caller) )
             => receipt'.err = "BatchClosedOrInvalid"
          /\ ( /\ receipt'.op = "checkInheritanceTrigger"
               /\ ~paused
               /\ DecryptionCooldownElapsed(receipt'.caller)
               /\ ~Uninitialized )
             => receipt'.err = "BatchClosedOrInvalid"
          /\ UNCHANGED <<encryptedLastSignalTimestamp, lastSubmissionTime,
                         lastDecryptionRequestTime, oracle>>
          /\ ContextIds' = ContextIds]_vars

\* C15 witness: with aggregate and threshold initialized, an unpaused check
\* outside any cooldown was refused because the current batch is closed
C15_Witness ==
    /\ receipt.op = "checkInheritanceTrigger"
    /\ receipt.err = "BatchClosedOrInvalid"
    /\ CurrentBatchClosed
    /\ ~Uninitialized
    /\ ~paused
    /\ DecryptionCooldownElapsed(receipt.caller)

\* C16: currentBatchId is 1 after construction; it changes only in a successful
\* openNewBatch, which increases it by exactly 1.
C16_BatchIdCountsOpenings ==
    /\ currentBatchId = 1
    /\ [][/\ currentBatchId' # currentBatchId
             => (receipt'.op = "openNewBatch" /\ receipt'.err = Ok)
          /\ (receipt'.op = "openNewBatch" /\ receipt'.err = Ok)
             => currentBatchId' = currentBatchId + 1
          /\ currentBatchId' >= currentBatchId]_vars

\* C16 witness: the second batch was closed and its id is still current
C16_Witness ==
    /\ receipt.op = "closeCurrentBatch"
    /\ receipt.err = Ok
    /\ currentBatchId = 2
    /\ batchClosed[2]

\* C17: a closed flag, once true, stays true; no batch id above currentBatchId is
\* closed; the batch made current by openNewBatch is open.
C17_ClosedFlagsStay ==
    [][/\ \A b \in BatchIds : batchClosed[b] => batchClosed'[b]
       /\ \A b \in BatchIds : b > currentBatchId => ~batchClosed[b]
       /\ \A b \in BatchIds : b > currentBatchId' => ~batchClosed'[b]
       /\ (receipt'.op = "openNewBatch" /\ receipt'.err = Ok)
          => ~batchClosed'[currentBatchId']]_vars

\* C17 witness: a new batch was opened after the previous one had been closed;
\* the old one is still closed and the new one is open
C17_Witness ==
    /\ receipt.op = "openNewBatch"
    /\ receipt.err = Ok
    /\ currentBatchId = 2
    /\ batchClosed[1]
    /\ ~batchClosed[2]

\* the latest transaction is a successful callback for r
CallbackSucceedsFor(r) ==
    receipt'.op = "myCallback" /\ receipt'.id = r /\ receipt'.err = Ok

\* the latest transaction is a successful checkInheritanceTrigger
RequestSucceeds ==
    receipt'.op = "checkInheritanceTrigger" /\ receipt'.err = Ok

\* C18: a stored context stays as it is, processed=false, through every step
\* that is not a successful callback for it; a successful
\* checkInheritanceTrigger stores its context under a requestId not used before
\* and leaves the older contexts, pending ones included, untouched.
C18_NoCancellation ==
    [][/\ \A r \in ContextIds :
             (~decryptionContexts[r].processed /\ ~CallbackSucceedsFor(r))
             => decryptionContexts'[r] = decryptionContexts[r]
       /\ RequestSucceeds
          => /\ receipt'.id \notin ContextIds
             /\ receipt'.id \in ContextIds'
             /\ \A r \in ContextIds : decryptionContexts'[r] = decryptionContexts[r]]_vars

\* C18 witness: a second request was recorded while the first one, which no
\* delivery can satisfy any more, is still pending
C18_Witness ==
    /\ receipt.op = "checkInheritanceTrigger"
    /\ receipt.err = Ok
    /\ receipt.id = 2
    /\ Pending(1)
    /\ Pending(2)
    /\ ~HashMatches(1)

\* C19: checkInheritanceTrigger stores for a requestId that had no context the
\* context (current batch, hash of the live ciphertexts, processed=false); from
\* then on its batchId and stateHash never change and it is never removed.
C19_ContextFixedAtRequest ==
    [][decryptionContexts' # decryptionContexts
       => \A r \in RequestIds :
             IF r \in ContextIds
             THEN /\ decryptionContexts'[r].batchId = decryptionContexts[r].batchId
                  /\ decryptionContexts'[r].stateHash = decryptionContexts[r].stateHash
                  /\ decryptionContexts'[r] # NullContext
             ELSE (decryptionContexts'[r] # NullContext)
                  => ( /\ RequestSucceeds
                       /\ receipt'.id = r
                       /\ decryptionContexts'[r] =
                             [batchId |-> currentBatchId,
                              stateHash |-> hashCiphertexts(ciphertexts(
                                                encryptedLastSignalTimestamp,
                                                encryptedInactivityThreshold, now)),
                              processed |-> FALSE] )]_vars

\* C19 witness: a request made in batch 1 was finalized after batch 2 had been
\* opened, and its context still names batch 1 and its hash
C19_Witness ==
    /\ receipt.op = "myCallback"
    /\ receipt.err = Ok
    /\ currentBatchId = 2
    /\ decryptionContexts[receipt.id].batchId = 1
    /\ decryptionContexts[receipt.id].processed
    /\ HashMatches(receipt.id)

BatchOps == {"openNewBatch", "closeCurrentBatch"}

\* C20: while the system is paused, openNewBatch and closeCurrentBatch fail with
\* NotOwner for a non-owner and with Paused for the owner, and leave
\* currentBatchId and the closed flags unchanged.
C20_OwnerCheckedBeforePause ==
    [][(receipt'.op \in BatchOps /\ paused)
       => /\ receipt'.err = IF receipt'.caller # owner THEN "NotOwner" ELSE "Paused"
          /\ UNCHANGED <<currentBatchId, batchClosed>>]_vars

\* C20 witness: the owner was refused closeCurrentBatch while paused, the batch
\* still open
C20_Witness ==
    /\ receipt.op = "closeCurrentBatch"
    /\ receipt.err = "Paused"
    /\ receipt.caller = owner
    /\ paused
    /\ ~CurrentBatchClosed

PausableOps ==
    {"openNewBatch", "closeCurrentBatch", "setInactivityThreshold",
     "submitLifeSignal", "checkInheritanceTrigger"}

UnpausableOps ==
    {"transferOwnership", "addProvider", "removeProvider", "setPaused",
     "setCooldownSeconds"}

\* C21: while the system is paused, openNewBatch, closeCurrentBatch and
\* setInactivityThreshold by the owner, submitLifeSignal by a provider and
\* checkInheritanceTrigger by anyone fail with Paused and change nothing;
\* transferOwnership, addProvider, removeProvider, setPaused and
\* setCooldownSeconds by the owner still succeed, setPaused(false) unpausing.
C21_PausedBlocksOperations ==
    [][paused
       => /\ ( \/ receipt'.op \in {"openNewBatch", "closeCurrentBatch",
                                   "setInactivityThreshold"}
                  /\ receipt'.caller = owner
               \/ receipt'.op = "submitLifeSignal" /\ isProvider[receipt'.caller]
               \/ receipt'.op = "checkInheritanceTrigger" )
             => receipt'.err = "Paused"
          /\ receipt'.op \in PausableOps
             => (receipt'.err # Ok /\ UNCHANGED <<storage, oracle, ledger>>)
          /\ (receipt'.op \in UnpausableOps /\ receipt'.caller = owner)
             => receipt'.err = Ok
          /\ \A c \in Addresses : (c = owner /\ setPaused(c, FALSE)) => ~paused']_vars

\* C21 witness: paused, a check that meets every other precondition was refused
\* with Paused
C21_Witness ==
    /\ receipt.op = "checkInheritanceTrigger"
    /\ receipt.err = "Paused"
    /\ paused
    /\ ~Uninitialized
    /\ ~CurrentBatchClosed
    /\ DecryptionCooldownElapsed(receipt.caller)

\* C22: addProvider of a provider and removeProvider of a non-provider, by the
\* owner, succeed without changing state or emitting an event; after a
\* successful addProvider (removeProvider) the address is (is not) a provider,
\* so that a second application is such a no-op.
C22_ProviderUpdatesIdempotent ==
    [][\A c \in Addresses, p \in Addresses :
          /\ (receipt'.op = "addProvider" /\ c = owner /\ addProvider(c, p))
             => /\ receipt'.err = Ok
                /\ isProvider'[p]
                /\ isProvider[p]
                   => (receipt'.logs = <<>> /\ UNCHANGED <<storage, oracle, ledger>>)
          /\ (receipt'.op = "removeProvider" /\ c = owner /\ removeProvider(c, p))
             => /\ receipt'.err = Ok
                /\ ~isProvider'[p]
                /\ ~isProvider[p]
                   => (receipt'.logs = <<>> /\ UNCHANGED <<storage, oracle, ledger>>)]_vars

\* C22 witness: the owner's addProvider of an address that was a provider
\* already went through without an event
C22_Witness ==
    /\ receipt.op = "addProvider"
    /\ receipt.err = Ok
    /\ receipt.caller = owner
    /\ receipt.logs = <<>>
    /\ \E p \in Addresses : isProvider[p]

\* C23: setPaused(b) and setCooldownSeconds(n) by the owner always store the
\* value and emit their event, also when the value is the current one; the
\* cooldown event carries the previous and the new value.
C23_SettersAlwaysApplyAndEmit ==
    [][\A c \in Addresses :
          /\ \A b \in BOOLEAN :
                (receipt'.op = "setPaused" /\ c = owner /\ setPaused(c, b))
                => /\ receipt'.err = Ok
                   /\ paused' = b
                   /\ receipt'.logs = <<PauseToggled(b)>>
          /\ \A n \in CooldownInputs :
                (receipt'.op = "setCooldownSeconds" /\ c = owner
                 /\ setCooldownSeconds(c, n))
                => /\ receipt'.err = Ok
                   /\ cooldownSeconds' = n
                   /\ receipt'.logs = <<CooldownSecondsUpdated(cooldownSeconds, n)>>]_vars

\* C23 witness: the first transaction after construction was setPaused(false),
\* the flag being false already, and the event was emitted
C23_Witness ==
    /\ txCount = 1
    /\ receipt.op = "setPaused"
    /\ receipt.err = Ok
    /\ ~paused
    /\ receipt.logs = <<PauseToggled(FALSE)>>

Succeeded(op, c) ==
    /\ receipt'.op = op
    /\ receipt'.err = Ok
    /\ receipt'.caller = c

\* C24: lastSubmissionTime[c] is written only by a successful submitLifeSignal
\* of c, which sets it to now, and lastDecryptionRequestTime[c] only by a
\* successful checkInheritanceTrigger of c, which sets it to now; each cooldown
\* refusal comes from the action's own bucket, never from the other one.
C24_RateLimitBucketsSeparate ==
    [][\A c \in Addresses :
          /\ lastSubmissionTime'[c] # lastSubmissionTime[c]
             => Succeeded("submitLifeSignal", c)
          /\ lastDecryptionRequestTime'[c] # lastDecryptionRequestTime[c]
             => Succeeded("checkInheritanceTrigger", c)
          /\ Succeeded("submitLifeSignal", c) => lastSubmissionTime'[c] = now
          /\ Succeeded("checkInheritanceTrigger", c)
             => lastDecryptionRequestTime'[c] = now
          /\ ( /\ receipt'.op = "submitLifeSignal"
               /\ receipt'.caller = c
               /\ receipt'.err \in {"CooldownActive", Panic} )
             => ~SubmissionCooldownElapsed(c)
          /\ ( /\ receipt'.op = "checkInheritanceTrigger"
               /\ receipt'.caller = c
               /\ receipt'.err \in {"CooldownActive", Panic} )
             => ~DecryptionCooldownElapsed(c)]_vars

\* C24 witness: a caller whose submission cooldown is running (it submitted in
\* this block) made a successful check, which started its decryption cooldown
C24_Witness ==
    /\ receipt.op = "checkInheritanceTrigger"
    /\ receipt.err = Ok
    /\ cooldownSeconds = toUint256(DefaultCooldown)
    /\ lastSubmissionTime[receipt.caller] = now
    /\ SubmissionCooldownActive(receipt.caller)
    /\ lastDecryptionRequestTime[receipt.caller] = now

\* C25: a successful setInactivityThreshold(v) stores exactly the wrap of v,
\* whatever was stored before, and no other step changes the stored threshold.
C25_ThresholdOverwritten ==
    [][/\ encryptedInactivityThreshold' # encryptedInactivityThreshold
          => (receipt'.op = "setInactivityThreshold" /\ receipt'.err = Ok)
       /\ \A c \in Addresses, v \in ThresholdInputs :
             ( /\ receipt'.op = "setInactivityThreshold"
               /\ receipt'.err = Ok
               /\ setInactivityThreshold(c, v) )
             => /\ encryptedInactivityThreshold' = asEuint32(v)
                /\ Clear(encryptedInactivityThreshold') = v]_vars

\* C25 witness: the threshold was 700 when a request was recorded and a later
\* setInactivityThreshold(500) left exactly 500 in store
C25_Witness ==
    /\ receipt.op = "setInactivityThreshold"
    /\ receipt.err = Ok
    /\ encryptedInactivityThreshold = asEuint32(500)
    /\ \E r \in ContextIds :
          decryptionContexts[r].stateHash.cts[2] = toBytes32(asEuint32(700))

\* C26: setInactivityThreshold by the owner while unpaused fails with
\* InvalidThreshold when the wrapped input is not initialized, keeping the
\* stored threshold (and all other state) and emitting nothing; otherwise it
\* succeeds.
C26_InvalidThresholdKeepsOld ==
    [][\A c \in Addresses, v \in ThresholdInputs :
          ( /\ receipt'.op = "setInactivityThreshold"
            /\ c = owner
            /\ ~paused
            /\ setInactivityThreshold(c, v) )
          => IF ~isInitialized(asEuint32(v))
             THEN /\ receipt'.err = "InvalidThreshold"
                  /\ receipt'.logs = <<>>
                  /\ UNCHANGED <<storage, oracle, ledger>>
             ELSE receipt'.err = Ok]_vars

\* C26 witness: a threshold was in store and a setInactivityThreshold was
\* refused with InvalidThreshold
C26_Witness ==
    /\ receipt.op = "setInactivityThreshold"
    /\ receipt.err = "InvalidThreshold"
    /\ isInitialized(encryptedInactivityThreshold)

\* C27: the owner is always one address; after construction the deployer is
\* owner and provider; a successful transferOwnership(newOwner) changes only
\* the owner field, nothing else changes the owner, and removeProvider(owner)
\* clears the owner's provider flag and leaves the owner in place.
C27_OwnershipIndependentOfProviders ==
    /\ owner = Deployer
    /\ isProvider[Deployer]
    /\ [][/\ owner' \in Addresses
          /\ owner' # owner
             => (receipt'.op = "transferOwnership" /\ receipt'.err = Ok)
          /\ \A c \in Addresses, n \in Addresses :
                ( /\ receipt'.op = "transferOwnership"
                  /\ c = owner
                  /\ transferOwnership(c, n) )
                => /\ receipt'.err = Ok
                   /\ owner' = n
                   /\ UNCHANGED <<isProvider, paused, cooldownSeconds,
                                  lastSubmissionTime, lastDecryptionRequestTime,
                                  currentBatchId, batchClosed, decryptionContexts,
                                  encryptedLastSignalTimestamp,
                                  encryptedInactivityThreshold, oracle, ledger>>
          /\ \A c \in Addresses :
                ( /\ receipt'.op = "removeProvider"
                  /\ c = owner
                  /\ removeProvider(c, owner) )
                => /\ receipt'.err = Ok
                   /\ ~isProvider'[owner]
                   /\ owner' = owner]_vars

\* C27 witness: ownership went to a2, who was made a provider and then removed
\* its own provider status; a2 is still owner and a1 is still a provider
C27_Witness ==
    /\ receipt.op = "removeProvider"
    /\ receipt.err = Ok
    /\ owner = "a2"
    /\ receipt.caller = owner
    /\ receipt.logs = <<ProviderRemoved(owner)>>
    /\ ~isProvider[owner]
    /\ isProvider[Deployer]

\* the three handles in the order of serialization, derived from the live state
LiveTriple ==
    <<toBytes32(encryptedLastSignalTimestamp),
      toBytes32(encryptedInactivityThreshold),
      toBytes32(FHEge(FHEsub(asEuint32(now), encryptedLastSignalTimestamp),
                      encryptedInactivityThreshold))>>

\* C28: the binding hash depends on the ordered triple (lastSignalTimestamp,
\* inactivityThreshold, trigger) and the contract identity only: the hash
\* stored with a request is the hash of the triple handed to the oracle,
\* recomputed in any later state; requests over the same triple have the same
\* hash; and the callback's recomputation matches the stored hash exactly
\* when the live triple, in that order, is the requested one.
C28_HashOfTripleAndIdentityOnly ==
    \A r \in ContextIds :
       /\ decryptionContexts[r].stateHash = hashCiphertexts(oracleRequests[r])
       /\ decryptionContexts[r].stateHash.addr = ThisAddress
       /\ \A q \in ContextIds :
             (oracleRequests[q] = oracleRequests[r])
             <=> (decryptionContexts[q].stateHash = decryptionContexts[r].stateHash)
       /\ HashMatches(r) <=> (LiveTriple = oracleRequests[r])

\* C28 witness: two requests by different callers in different batches have
\* the same hash, and the live state, in yet another batch setting than the
\* first request's, still matches it
C28_Witness ==
    \E r, q \in ContextIds :
       /\ r # q
       /\ decryptionContexts[r].stateHash = decryptionContexts[q].stateHash
       /\ decryptionContexts[r].batchId # decryptionContexts[q].batchId
       /\ decryptionContexts[r].batchId # currentBatchId
       /\ HashMatches(r)

\* the block time wrapped into the trigger handle that request r recorded
TriggerTime(r) == decryptionContexts[r].stateHash.cts[3].a[1].a[1].n

\* C29: the trigger handle recorded by a request wraps the block time of the
\* request; a callback succeeds only at that block time, and a callback for a
\* pending request whose two stored ciphertexts are the requested ones fails
\* with StateMismatch once the block time is another one.
C29_CallbackOnlyAtRequestTime ==
    [][\A r \in RequestIds :
          /\ ( /\ receipt'.op = "checkInheritanceTrigger"
               /\ receipt'.err = Ok
               /\ receipt'.id = r )
             => TriggerTime(r)' = now
          /\ (CallbackFor(r) /\ r \in ContextIds)
             => /\ receipt'.err = Ok => now = TriggerTime(r)
                /\ (Pending(r) /\ ~HandlesReplaced(r) /\ now # TriggerTime(r))
                   => receipt'.err = "StateMismatch"]_vars

\* C29 witness: a genuine delivery for a pending request, both stored
\* ciphertexts unchanged, was refused with StateMismatch in a later block
C29_Witness ==
    /\ receipt.op = "myCallback"
    /\ receipt.err = "StateMismatch"
    /\ receipt.id \in ContextIds
    /\ Pending(receipt.id)
    /\ ~HandlesReplaced(receipt.id)
    /\ now > TriggerTime(receipt.id)

\* positions in the decryption event ledger of the events of one kind for r
EventsFor(name, r) ==
    {i \in 1..Len(decryptionEvents) :
        decryptionEvents[i].name = name /\ decryptionEvents[i].id = r}

\* C30: a processed context belongs to a request id recorded by an earlier
\* successful checkInheritanceTrigger; a callback for an id never requested
\* does not succeed; and among the events emitted so far every
\* DecryptionCompleted(r) comes after a DecryptionRequested(r) and there is at
\* most one DecryptionCompleted per r.
C30_CompletedOnlyAfterRequested ==
    [][\A r \in RequestIds :
          /\ decryptionContexts'[r].processed
             => /\ oracleRequests'[r] # NoRequest
                /\ EventsFor("DecryptionRequested", r)' # {}
                /\ EventsFor("DecryptionCompleted", r)' # {}
          /\ (CallbackFor(r) /\ EventsFor("DecryptionRequested", r) = {})
             => receipt'.err # Ok
          /\ \A i \in EventsFor("DecryptionCompleted", r)' :
                /\ \E j \in EventsFor("DecryptionRequested", r)' : j < i
                /\ \A k \in EventsFor("DecryptionCompleted", r)' : k = i]_vars

\* C30 witness: request 1 was requested and then completed, and after that a
\* callback for an id that was never requested was refused
C30_Witness ==
    /\ Len(decryptionEvents) = 2
    /\ decryptionEvents[1].name = "DecryptionRequested"
    /\ decryptionEvents[1].id = 1
    /\ decryptionEvents[2].name = "DecryptionCompleted"
    /\ decryptionEvents[2].id = 1
    /\ decryptionContexts[1].processed
    /\ receipt.op = "myCallback"
    /\ receipt.id = 2
    /\ receipt.err # Ok
    /\ EventsFor("DecryptionRequested", 2) = {}

CallbackErrors == {"ReplayDetected", "StateMismatch", "DecryptionFailed"}

\* C31: the callback is refused only for replay, hash mismatch or a bad proof:
\* for a pending request whose hash matches, a delivery with the oracle's
\* proof succeeds whatever the pause flag, the closed flags, the current batch
\* id and the cooldowns are, and the emitted decision carries the batchId
\* stored with the request.
C31_CallbackUngated ==
    [][\A r \in RequestIds :
          CallbackFor(r)
          => /\ receipt'.err \in CallbackErrors \cup {Ok}
             /\ (Pending(r) /\ HashMatches(r))
                => /\ receipt'.err \in {Ok, "DecryptionFailed"}
                   /\ \A d \in GenuineDeliveries :
                         (d.rid = r /\ myCallback(d.rid, d.clear, d.proof))
                         => receipt'.err = Ok
             /\ receipt'.err = Ok
                => /\ decryptionContexts'[r].processed
                   /\ Len(receipt'.logs) = 1
                   /\ receipt'.logs[1].name = "DecryptionCompleted"
                   /\ receipt'.logs[1].batch = decryptionContexts[r].batchId]_vars

\* C31 witness: a request recorded in batch 1 was finalized after batch 2 had
\* been opened, and the decision carries batch 1
C31_Witness ==
    /\ receipt.op = "myCallback"
    /\ receipt.err = Ok
    /\ decryptionContexts[receipt.id].processed
    /\ decryptionContexts[receipt.id].batchId = 1
    /\ currentBatchId = 2
    /\ receipt.logs[1].batch = 1

\* a request was finalized while the system was paused
C31_FinalizedWhilePaused ==
    /\ receipt.op = "myCallback"
    /\ receipt.err = Ok
    /\ paused

\* a request was finalized after its batch had been closed
C31_FinalizedAfterClose ==
    /\ receipt.op = "myCallback"
    /\ receipt.err = Ok
    /\ batchClosed[decryptionContexts[receipt.id].batchId]

\* C32: the elapsed time is the unsigned 32-bit difference: a
\* checkInheritanceTrigger whose other preconditions hold succeeds also when
\* the aggregate lastSignalTimestamp is greater than now, and the trigger it
\* hands to the oracle decrypts to ((now - lastSignal) mod 2^32 >= threshold).
C32_ElapsedWrapsAround ==
    [][LET last == Clear(encryptedLastSignalTimestamp)
           threshold == Clear(encryptedInactivityThreshold)
           elapsed == (now - last) % Uint32Modulus
       IN  /\ \A r \in RequestIds :
                ( /\ receipt'.op = "checkInheritanceTrigger"
                  /\ receipt'.err = Ok
                  /\ receipt'.id = r )
                => Decrypt(oracleRequests'[r])
                     = <<last, threshold, IF elapsed >= threshold THEN 1 ELSE 0>>
           /\ ( /\ receipt'.op = "checkInheritanceTrigger"
                /\ ~paused
                /\ DecryptionCooldownElapsed(receipt'.caller)
                /\ ~Uninitialized
                /\ ~CurrentBatchClosed
                /\ last > now )
              => receipt'.err = Ok]_vars

\* C32 witness: a request was recorded with the aggregate ahead of the block
\* time; its trigger decrypts to true although now - lastSignal is below the
\* threshold
C32_Witness ==
    /\ receipt.op = "checkInheritanceTrigger"
    /\ receipt.err = Ok
    /\ Clear(encryptedLastSignalTimestamp) > now
    /\ now - Clear(encryptedLastSignalTimestamp) < Clear(encryptedInactivityThreshold)
    /\ Decrypt(oracleRequests[receipt.id])[3] = 1

====
